---- MODULE Spec2Model ----
(***************************************************************************)
(* Model of the minecraft progression server: the supervised processes     *)
(* (server.py JavaServer, proxy.py ProxyServer), and the scheduler /       *)
(* migration code of scheduler.py.                                         *)
(***************************************************************************)
EXTENDS Integers, Sequences, FiniteSets, Bags, TLC

\* ------------------------------------------------------------------ bounds
\* threads of one instance that are alive at a time
MaxWorkers == 2
\* Popen objects of one instance that exist at a time (running, or held by
\* self._proc or by a thread blocked in wait())
MaxLaunch == 2

\* ------------------------------------------------------------- basic values
\* the two supervised-process objects of scheduler.main
Inst == {"server", "proxy"}

\* Python's None for the _proc attribute (a slot number otherwise)
None == 0

\* version strings are modelled as the sequence of their dotted components
VersionStrings == {<<1, 16, 0>>, <<1, 16, 1>>}

VARIABLES
    stop_event,   \* [Inst -> BOOLEAN]       self._stop_event
    proc,         \* [Inst -> child slot]    self._proc (None = 0)
    thread,       \* [Inst -> worker]        the Thread self._thread holds
    orphans,      \* [Inst -> bag of worker] live threads _thread no longer holds
    version,      \* ProxyServer.version
    children,     \* [Inst -> [slot -> child]]   the instance's Popen objects
    ctl,          \* the controller's call in progress on a supervised process
    hist,         \* [Inst -> last completed controller call] (history)
    cpc,          \* where the controlling thread is in scheduler.py
    rec,          \* current.txt: [ver |-> version string, ts |-> timestamp]
    servers,      \* os.listdir("servers"): the directory names, in its order
    current,      \* the directory "current"
    old,          \* the directory "old"
    settings,     \* settings.json
    clock,        \* [now |-> hours since a monday 00:00 UTC, tz |-> local offset]
    up,           \* the upgrade_version call: its arguments, locals, entry state
    trace,        \* what that call has done so far, in order (history)
    last,         \* how the last check_updates and upgrade_version went (history)
    visited       \* the versions selected one after the other (history)

\* what only the controlling thread reads or writes
\* the scheduler's state: files, configuration, clock, locals, histories
sched == <<rec, servers, current, old, settings, clock, up, trace, last, visited>>

ctlSide == <<ctl, hist, cpc, sched>>
vars == <<stop_event, proc, thread, orphans, version, children, ctlSide>>

NoCall == [op |-> "none", inst |-> "server", pc |-> "-", quiet |-> FALSE]

\* self._thread is None
NoThread == [pc |-> "none", wp |-> None, cmd |-> <<>>, ret |-> "None"]

\* a finished thread keeps no local state
DeadWorker == [pc |-> "done", wp |-> None, cmd |-> <<>>, ret |-> "None"]

\* a thread that start() has just started; wp is the Popen object it is
\* blocked on in wait(), cmd its command line, ret the local of that name
\* ("None", or an exit code)
NewWorker == [pc |-> "init", wp |-> None, cmd |-> <<>>, ret |-> "None"]

\* a slot that holds no Popen object
FreeChild == [st |-> "free", ver |-> <<>>]

\* a child that has exited; its exit code is what poll() then returns
Exited == [st |-> "exited", ver |-> <<>>]

\* Popen.returncode of a child that has exited: 0, or nonzero (a crash, a signal)
ExitCodes == {"zero", "nonzero"}

ChildSlots == 1..MaxLaunch

\* Thread.is_alive()
is_alive(t) == t.pc \notin {"none", "done"}

\* the number of live worker threads of instance i
LiveWorkers(i) ==
    BagCardinality(orphans[i]) + (IF is_alive(thread[i]) THEN 1 ELSE 0)

\* Popen.poll() is None
Running(i, c) == children[i][c].st = "running"

LiveChildren(i) == {c \in ChildSlots : Running(i, c)}

\* the lowest slot of f that holds r; 0 when there is none
FirstSlot(f, r) ==
    IF \E k \in DOMAIN f : f[k] = r
       THEN CHOOSE k \in DOMAIN f : f[k] = r /\ \A j \in DOMAIN f : f[j] = r => k <= j
       ELSE 0

\* The new values t, os, cs, p of instance i's _thread, its other live
\* threads, its Popen objects and _proc. The Popen object of an exited child
\* that neither _proc nor a thread blocked in wait() holds is unreachable:
\* its slot becomes free.
Commit(i, t, os, cs, p) ==
    /\ thread' = [thread EXCEPT ![i] = t]
    /\ orphans' = [orphans EXCEPT ![i] = os]
    /\ children' = [children EXCEPT ![i] =
          [c \in ChildSlots |->
              IF /\ cs[c].st = "exited"
                 /\ p # c
                 /\ t.wp # c
                 /\ \A o \in BagToSet(os) : o.wp # c
                 THEN FreeChild ELSE cs[c]]]
    /\ proc' = [proc EXCEPT ![i] = p]

\* the threads a step can be taken for: the one _thread holds (h), the others
Threads(i, h) ==
    IF h THEN (IF is_alive(thread[i]) THEN {thread[i]} ELSE {})
         ELSE BagToSet(orphans[i])

\* thread r of instance i (held by _thread iff h) becomes r2, the instance's
\* Popen objects cs and _proc p; a thread that has ended and that _thread does
\* not hold is gone
WorkerSets(i, r, h, r2, cs, p) ==
    IF h THEN Commit(i, r2, orphans[i], cs, p)
         ELSE Commit(i, thread[i],
                     IF r2.pc = "done"
                        THEN orphans[i] (-) SetToBag({r})
                        ELSE (orphans[i] (-) SetToBag({r})) (+) SetToBag({r2}),
                     cs, p)

WorkerBecomes(i, r, h, r2) == WorkerSets(i, r, h, r2, children[i], proc[i])

\* ------------------------------------------------------ the worker thread
\* proxy.py: the ".0" suffix is cut off the version string once
StripVersion(v) ==
    IF Len(v) > 0 /\ v[Len(v)] = 0 THEN SubSeq(v, 1, Len(v) - 1) ELSE v

\* the command line is built once, before the restart loop
BuildCmd(i) == IF i = "proxy" THEN StripVersion(version) ELSE <<>>

run_init(i, r, h) ==
    /\ r.pc = "init"
    /\ WorkerBecomes(i, r, h, [r EXCEPT !.pc = "loop", !.cmd = BuildCmd(i)])
    /\ UNCHANGED <<stop_event, version, ctlSide>>

\* while not self._stop_event.is_set()
run_loop(i, r, h) ==
    /\ r.pc = "loop"
    /\ WorkerBecomes(i, r, h, IF stop_event[i] THEN DeadWorker
                              ELSE [r EXCEPT !.pc = "launch"])
    /\ UNCHANGED <<stop_event, version, ctlSide>>

\* self._proc = subprocess.Popen(cmd, cwd=...)
Popen_ok(i, r, h) ==
    /\ r.pc = "launch"
    /\ LET c == FirstSlot(children[i], FreeChild)
       IN  /\ c # 0
           /\ WorkerSets(i, r, h, [r EXCEPT !.pc = "inner"],
                         [children[i] EXCEPT ![c] = [st |-> "running", ver |-> r.cmd]],
                         c)
    /\ UNCHANGED <<stop_event, version, ctlSide>>

\* (mutant) a launch that fails ends the worker
Popen_fail_ends(i, r, h) ==
    /\ r.pc = "launch"
    /\ WorkerBecomes(i, r, h, DeadWorker)
    /\ UNCHANGED <<stop_event, version, ctlSide>>

\* Popen raises (executable missing, ...): the except branch
Popen_fail(i, r, h) ==
    /\ r.pc = "launch"
    /\ WorkerBecomes(i, r, h, [r EXCEPT !.pc = "delay"])
    /\ UNCHANGED <<stop_event, version, ctlSide>>

\* inner loop: if self._stop_event.is_set()
run_inner(i, r, h) ==
    /\ r.pc = "inner"
    /\ WorkerBecomes(i, r, h, [r EXCEPT !.pc = IF stop_event[i] THEN "term" ELSE "poll"])
    /\ UNCHANGED <<stop_event, version, ctlSide>>

\* self._proc.terminate(); self._proc.wait(): an attribute that stop() has
\* reset to None raises AttributeError (the except branch), else the thread
\* blocks on the object it found
run_terminate(i, r, h) ==
    /\ r.pc = "term"
    /\ WorkerBecomes(i, r, h, IF proc[i] = None
                                 THEN [r EXCEPT !.pc = "delay"]
                                 ELSE [r EXCEPT !.pc = "waiting", !.wp = proc[i]])
    /\ UNCHANGED <<stop_event, version, ctlSide>>

\* wait() returns when that child has exited; then return
run_waited(i, r, h) ==
    /\ r.pc = "waiting"
    /\ ~Running(i, r.wp)
    /\ WorkerBecomes(i, r, h, DeadWorker)
    /\ UNCHANGED <<stop_event, version, ctlSide>>

\* ret = self._proc.poll(): an AttributeError on None, sleep(0.5) and the
\* next round while the child runs, else break with the child's exit code
run_poll(i, r, h) ==
    /\ r.pc = "poll"
    /\ IF proc[i] = None
          THEN WorkerBecomes(i, r, h, [r EXCEPT !.pc = "delay"])
          ELSE IF Running(i, proc[i])
                  THEN WorkerBecomes(i, r, h, [r EXCEPT !.pc = "inner"])
                  ELSE \E code \in ExitCodes :
                          WorkerBecomes(i, r, h, [r EXCEPT !.pc = "after", !.ret = code])
    /\ UNCHANGED <<stop_event, version, ctlSide>>

\* (mutant) a clean exit (code 0) ends the supervision
run_after_crash_only(i, r, h) ==
    /\ r.pc = "after"
    /\ WorkerBecomes(i, r, h, IF stop_event[i] \/ r.ret = "zero" THEN DeadWorker
                              ELSE [r EXCEPT !.pc = "delay", !.ret = "None"])
    /\ UNCHANGED <<stop_event, version, ctlSide>>

\* after the inner loop: if self._stop_event.is_set(): return; else log ret
\* (ret is not read again before poll() assigns it)
run_after(i, r, h) ==
    /\ r.pc = "after"
    /\ WorkerBecomes(i, r, h, IF stop_event[i] THEN DeadWorker
                              ELSE [r EXCEPT !.pc = "delay", !.ret = "None"])
    /\ UNCHANGED <<stop_event, version, ctlSide>>

\* time.sleep(self.restart_delay), on the normal and on the except path
run_delay(i, r, h) ==
    /\ r.pc = "delay"
    /\ WorkerBecomes(i, r, h, [r EXCEPT !.pc = "loop"])
    /\ UNCHANGED <<stop_event, version, ctlSide>>

\* the child exits (on its own, crashing, or killed from outside)
child_exit(i, c) ==
    /\ Running(i, c)
    /\ Commit(i, thread[i], orphans[i], [children[i] EXCEPT ![c] = Exited], proc[i])
    /\ UNCHANGED <<stop_event, version, ctlSide>>

\* ------------------------------------------- the controller's calls
\* the controlling thread is not inside a call on a supervised process
Idle == ctl.op = "none"

\* hist: "stopped" after a stop(), "stopped2" after a stop() that followed
\* another one and began with no live thread and no live child; "restarted"
\* and "restarted2" after the start() that followed
Stopped == {"stopped", "stopped2"}

Restarted == {"restarted", "restarted2"}

\* start(): a no-op while the thread it holds is alive, else a new thread
start(i) ==
    /\ Idle
    /\ IF is_alive(thread[i])
          THEN UNCHANGED <<thread, orphans, children, proc>>
          ELSE /\ BagCardinality(orphans[i]) < MaxWorkers
               /\ Commit(i, NewWorker, orphans[i], children[i], proc[i])
    /\ hist' = [hist EXCEPT ![i] = IF @ = "stopped2" THEN "restarted2"
                                   ELSE IF @ = "stopped" THEN "restarted"
                                   ELSE "started"]
    /\ UNCHANGED <<stop_event, version, ctl>>

\* set_version(ver)
set_version(v) ==
    /\ Idle
    /\ version' = v
    /\ UNCHANGED <<stop_event, proc, thread, orphans, children, ctl, hist>>

\* stop(): entry, self._stop_event.set()
stop(i) ==
    /\ Idle
    /\ stop_event' = [stop_event EXCEPT ![i] = TRUE]
    /\ ctl' = [op |-> "stop", inst |-> i, pc |-> "L47",
               quiet |-> LiveWorkers(i) = 0 /\ LiveChildren(i) = {}]
    /\ UNCHANGED <<proc, thread, orphans, version, children, hist>>

InStop(i, p) == ctl.op = "stop" /\ ctl.inst = i /\ ctl.pc = p

StopGoto(p) == ctl' = [ctl EXCEPT !.pc = p]

\* if self._proc and self._proc.poll() is None: self._proc.terminate()
stop_poll(i) ==
    /\ InStop(i, "L47")
    /\ StopGoto(IF proc[i] # None /\ Running(i, proc[i]) THEN "L51" ELSE "L58")
    /\ UNCHANGED <<stop_event, proc, thread, orphans, version, children, hist, cpc, sched>>

\* self._proc.wait(timeout=timeout) returns: the child has exited
stop_wait(i) ==
    /\ InStop(i, "L51")
    /\ ~Running(i, proc[i])
    /\ StopGoto("L58")
    /\ UNCHANGED <<stop_event, proc, thread, orphans, version, children, hist, cpc, sched>>

\* ... or raises TimeoutExpired while the child still runs
stop_wait_timeout(i) ==
    /\ InStop(i, "L51")
    /\ Running(i, proc[i])
    /\ StopGoto("L55")
    /\ UNCHANGED <<stop_event, proc, thread, orphans, version, children, hist, cpc, sched>>

\* self._proc.kill(); self._proc.wait()
stop_kill(i) ==
    /\ InStop(i, "L55")
    /\ Commit(i, thread[i], orphans[i],
              [children[i] EXCEPT ![proc[i]] = Exited], proc[i])
    /\ StopGoto("L58")
    /\ UNCHANGED <<stop_event, version, hist, cpc, sched>>

\* join(timeout) returns because the thread has ended (or there is none)
stop_join(i) ==
    /\ InStop(i, "L58")
    /\ ~is_alive(thread[i])
    /\ StopGoto("L65")
    /\ UNCHANGED <<stop_event, proc, thread, orphans, version, children, hist, cpc, sched>>

\* ... or because the timeout expired with the thread still alive (a warning)
stop_join_timeout(i) ==
    /\ InStop(i, "L58")
    /\ is_alive(thread[i])
    /\ StopGoto("L65")
    /\ UNCHANGED <<stop_event, proc, thread, orphans, version, children, hist, cpc, sched>>

\* self._thread = None; self._proc = None
stop_reset(i) ==
    /\ InStop(i, "L65")
    /\ Commit(i, NoThread,
              IF is_alive(thread[i])
                 THEN orphans[i] (+) SetToBag({thread[i]}) ELSE orphans[i],
              children[i], None)
    /\ StopGoto("L67")
    /\ UNCHANGED <<stop_event, version, hist, cpc, sched>>

\* (mutant) stop() returns without clearing the stop flag
stop_clear_forgotten(i) ==
    /\ InStop(i, "L67")
    /\ ctl' = NoCall
    /\ hist' = [hist EXCEPT ![i] = IF @ \in Stopped /\ ctl.quiet
                                      THEN "stopped2" ELSE "stopped"]
    /\ UNCHANGED <<stop_event, proc, thread, orphans, version, children, cpc, sched>>

\* self._stop_event.clear(); stop() returns
stop_clear(i) ==
    /\ InStop(i, "L67")
    /\ stop_event' = [stop_event EXCEPT ![i] = FALSE]
    /\ ctl' = NoCall
    /\ hist' = [hist EXCEPT ![i] = IF @ \in Stopped /\ ctl.quiet
                                      THEN "stopped2" ELSE "stopped"]
    /\ UNCHANGED <<proc, thread, orphans, version, children, cpc, sched>>

\* the steps of a stop() in progress
StopStep(i) ==
    \/ stop_poll(i)
    \/ stop_wait(i)
    \/ stop_wait_timeout(i)
    \/ stop_kill(i)
    \/ stop_join(i)
    \/ stop_join_timeout(i)
    \/ stop_reset(i)
    \/ stop_clear(i)

\* the steps of thread r of instance i
WorkerStep(i, r, h) ==
    \/ run_init(i, r, h)
    \/ run_loop(i, r, h)
    \/ Popen_ok(i, r, h)
    \/ Popen_fail(i, r, h)
    \/ run_inner(i, r, h)
    \/ run_terminate(i, r, h)
    \/ run_waited(i, r, h)
    \/ run_poll(i, r, h)
    \/ run_after(i, r, h)
    \/ run_delay(i, r, h)

\* ------------------------------------------------- versions and the catalog
\* A version string, and a directory name, is the sequence of its dotted
\* numbers ("1.16" is <<1, 16>>); a version tuple is a record.

\* parse_version("0.0.0")
Sentinel == [major |-> 0, minor |-> 0, patch |-> 0]

\* parse_version's None, for a name VERSION_RE does not match
NotAVersion == [major |-> -1, minor |-> -1, patch |-> -1]

\* two or three numbers; a missing patch number is 0
parse_version(name) ==
    IF Len(name) = 3
       THEN [major |-> name[1], minor |-> name[2], patch |-> name[3]]
       ELSE IF Len(name) = 2
               THEN [major |-> name[1], minor |-> name[2], patch |-> 0]
               ELSE NotAVersion

version_to_string(v) == <<v.major, v.minor, v.patch>>

\* list.sort(key=lambda x: x[1]) is stable: x goes behind the entries whose
\* minor number is not greater
RECURSIVE InsertByMinor(_, _)
InsertByMinor(s, x) ==
    IF s = <<>> THEN <<x>>
    ELSE IF Head(s).minor <= x.minor
            THEN <<Head(s)>> \o InsertByMinor(Tail(s), x)
            ELSE <<x>> \o s

RECURSIVE SortByMinor(_)
SortByMinor(s) ==
    IF s = <<>> THEN <<>>
    ELSE InsertByMinor(SortByMinor(SubSeq(s, 1, Len(s) - 1)), s[Len(s)])

\* the entries of the listing that parse, in its order
RECURSIVE ParsedEntries(_)
ParsedEntries(listing) ==
    IF listing = <<>> THEN <<>>
    ELSE LET ver == parse_version(Head(listing))
         IN  (IF ver = NotAVersion THEN <<>> ELSE <<ver>>) \o ParsedEntries(Tail(listing))

\* get_versions(): the sentinel, then the directories, sorted
get_versions(listing) == SortByMinor(<<Sentinel>> \o ParsedEntries(listing))

\* get_version(): the first line of current.txt, parsed
get_version == parse_version(rec.ver)

\* the timestamp create_version_file writes (2000-01-01), in hours
DefaultTs == -10000

\* what create_version_file writes
NewRecord == [ver |-> <<0, 0, 0>>, ts |-> DefaultTs]

\* ------------------------------------------------------------ directories
\* A data root: the name of the servers/ directory its server.jar came from
\* (<<>>: no jar), whether it has a world, eula.txt, and its server.properties
\* ("none", "default" as the server generates it, "applied")
Absent == [exists |-> FALSE, jar |-> <<>>, world |-> FALSE, eula |-> FALSE, conf |-> "none"]

\* os.makedirs("current") where there was none
EmptyRoot == [Absent EXCEPT !.exists = TRUE]

\* a data root a server of version name has run in
UsedRoot(name) ==
    [exists |-> TRUE, jar |-> name, world |-> TRUE, eula |-> TRUE, conf |-> "applied"]

\* ------------------------------------------------------ the upgrade call
\* no upgrade_version call made yet
NoUp ==
    [caller |-> "none", server |-> FALSE, proxy |-> FALSE, version |-> NotAVersion,
     rec0 |-> NewRecord, cur0 |-> Absent, old0 |-> Absent]

\* at: the clock of the last call of upgrade_version by check_updates
NoLast == [invoked |-> FALSE, outcome |-> "none", rename |-> "none", at |-> -1]

\* ------------------------------------------------------------ the clock
\* the clock stops here (hours)
MaxNow == 336

\* the names check_updates knows, by weekday number
WeekdayNames ==
    <<"monday", "tuesday", "wednesday", "thursday", "friday", "saturday", "sunday">>

\* the match statement: weekday stays 0 for any other value
weekday_of(name) ==
    IF \E k \in DOMAIN WeekdayNames : WeekdayNames[k] = name
       THEN (CHOOSE k \in DOMAIN WeekdayNames : WeekdayNames[k] = name) - 1
       ELSE 0

\* datetime.today().weekday(): the weekday of the local date (monday is 0)
today_weekday == ((clock.now + clock.tz) \div 24) % 7

\* datetime.now(timezone.utc).hour
utc_hour == clock.now % 24

\* (mutant) the test of the hour left out
gate_passes_any_hour ==
    /\ ~(rec.ts + 24 * settings.update_frequency_days > clock.now)
    /\ ~(today_weekday # weekday_of(settings.update_weekday))

\* the three tests of check_updates, in its order
gate_passes ==
    /\ ~(rec.ts + 24 * settings.update_frequency_days > clock.now)
    /\ ~(today_weekday # weekday_of(settings.update_weekday))
    /\ ~(settings.update_time_utc # utc_hour)

DefaultSettings ==
    [update_frequency_days |-> 7, update_weekday |-> "monday",
     update_time_utc |-> 0, viaproxy_enable |-> TRUE]

\* the scheduler's state where the scheduler does not run
SchedIdle ==
    /\ rec = NewRecord
    /\ servers = <<>>
    /\ current = Absent
    /\ old = Absent
    /\ settings = DefaultSettings
    /\ clock = [now |-> 0, tz |-> 0]
    /\ up = NoUp
    /\ trace = <<>>
    /\ last = NoLast
    /\ visited = <<>>

\* ------------------------------------------------------------ supervision
\* both objects constructed, no call made yet
Constructed ==
    /\ stop_event = [i \in Inst |-> FALSE]
    /\ proc = [i \in Inst |-> None]
    /\ thread = [i \in Inst |-> NoThread]
    /\ orphans = [i \in Inst |-> EmptyBag]
    /\ children = [i \in Inst |-> [c \in ChildSlots |-> FreeChild]]
    /\ ctl = NoCall
    /\ hist = [i \in Inst |-> "new"]

SupInit == Constructed /\ version \in VersionStrings /\ SchedIdle

\* The two objects share no state, so a run of the supervision model has a
\* caller that drives one of them, in any order of calls; the other stays as
\* constructed.
CallerOf(i) == IF i = "server" THEN "caller_server" ELSE "caller_proxy"

Init ==
    /\ SupInit
    /\ cpc \in {CallerOf(i) : i \in Inst}

call_start(i) == cpc = CallerOf(i) /\ start(i) /\ UNCHANGED <<cpc, sched>>

call_stop(i) == cpc = CallerOf(i) /\ stop(i) /\ UNCHANGED <<cpc, sched>>

call_set_version(v) == cpc = CallerOf("proxy") /\ set_version(v) /\ UNCHANGED <<cpc, sched>>

Next ==
    \/ \E i \in Inst : call_start(i)
    \/ \E i \in Inst : call_stop(i)
    \/ \E i \in Inst : StopStep(i)
    \/ \E i \in Inst : \E h \in BOOLEAN : \E r \in Threads(i, h) :
          WorkerStep(i, r, h)
    \/ \E i \in Inst : \E c \in ChildSlots : child_exit(i, c)

Spec == Init /\ [][Next]_vars

\* C1: of each instance, at most one worker thread and at most one child
\* process is alive, whatever start() and stop() calls were made.
C1_AtMostOneWorkerAndChild ==
    \A i \in Inst : LiveWorkers(i) <= 1 /\ Cardinality(LiveChildren(i)) <= 1

\* C2: once stop() has returned, and until start() is called, the instance
\* has no live worker thread and no live child process.
C2_StoppedWhenStopReturns ==
    \A i \in Inst : hist[i] \in Stopped => LiveWorkers(i) = 0 /\ LiveChildren(i) = {}

\* C3: a stop() that follows another one, called with no live thread and no
\* live child, returns with _proc = None, _thread = None and the stop flag
\* cleared; and the start() after a stop() creates a new thread (one more
\* live thread, at its first instruction) that finds the stop flag cleared.
C3_StopIdempotentStartFresh ==
    /\ [](\A i \in Inst :
            (hist[i] = "stopped2" /\ ~(ctl.op = "stop" /\ ctl.inst = i))
               => (proc[i] = None /\ thread[i] = NoThread /\ ~stop_event[i]))
    /\ [][\A i \in Inst :
            (hist[i] \in Stopped /\ hist'[i] \in Restarted)
               => /\ thread'[i] = NewWorker
                  /\ ~stop_event'[i]
                  /\ LiveWorkers(i)' = LiveWorkers(i) + 1]_vars

\* C3 witness: after two stop() calls in a row and a start(), the new thread
\* has launched a child that runs.
C3_Witness ==
    \E i \in Inst :
        /\ hist[i] = "restarted2"
        /\ thread[i].pc = "poll"
        /\ proc[i] # None
        /\ children[i][proc[i]].st = "running"

\* --------------------------------------------- supervision, never stopped
LiveNext ==
    \/ \E i \in Inst : call_start(i)
    \/ \E v \in VersionStrings : call_set_version(v)
    \/ \E i \in Inst : \E r \in Threads(i, TRUE) : WorkerStep(i, r, TRUE)
    \/ \E i \in Inst : \E c \in ChildSlots : child_exit(i, c)

\* A started thread keeps being scheduled; a launch that is retried for ever
\* does not fail for ever.
LiveFair(i) ==
    /\ WF_vars(\E r \in Threads(i, TRUE) : WorkerStep(i, r, TRUE))
    /\ SF_vars(\E r \in Threads(i, TRUE) : Popen_ok(i, r, TRUE))

LiveSpec == Init /\ [][LiveNext]_vars /\ \A i \in Inst : LiveFair(i)

\* C4: with no stop() called, whenever the child the instance holds has
\* exited (with any exit code), the worker later launches a child that runs;
\* and so after every exit.
C4_ExitLeadsToRelaunch ==
    \A i \in Inst :
        (proc[i] # None /\ children[i][proc[i]].st = "exited")
            ~> (proc[i] # None /\ children[i][proc[i]].st = "running")

\* C4 witness: the child of the never stopped instance runs and is not the
\* first Popen object the worker created (that one has exited).
C4_Witness ==
    \E i \in Inst :
        /\ hist[i] = "started"
        /\ thread[i].pc = "poll"
        /\ proc[i] = 2
        /\ children[i][2].st = "running"
        /\ children[i][1].st = "free"

\* ---------------------------------------------------------- upgrade_version
\* what upgrade_version leaves alone
env == <<servers, settings, clock, visited>>

procs == <<stop_event, proc, thread, orphans, version, children, ctl, hist>>

\* lines 156-164: the entry behind the first one equal to version, none
\* (NotAVersion) when that is the last one, the first entry of the list for a
\* version the list does not hold
NextVersion(ver, versions) ==
    LET index == FirstSlot(versions, ver)
    IN  IF index # 0
           THEN IF index + 1 <= Len(versions) THEN versions[index + 1] ELSE NotAVersion
           ELSE versions[1]

\* the call upgrade_version(server, proxy) by caller c
Enter(c, srv, prx) ==
    /\ cpc' = "up_select"
    /\ up' = [caller |-> c, server |-> srv, proxy |-> prx, version |-> NotAVersion,
              rec0 |-> rec, cur0 |-> current, old0 |-> old]
    /\ trace' = <<>>
    /\ last' = [invoked |-> TRUE, outcome |-> "running", rename |-> "none",
                at |-> IF c = "loop" THEN clock.now ELSE last.at]

\* upgrade_version returns: to main line 304, or to update_loop's sleep
Return(outcome) ==
    /\ cpc' = (IF up.caller = "main" THEN "main_apply" ELSE "sleep")
    /\ last' = [last EXCEPT !.outcome = outcome]

\* (mutant) update_loop does not catch the exception either
Raise_uncaught ==
    /\ cpc' = "crashed"
    /\ last' = [last EXCEPT !.outcome = "raised"]

\* an exception leaves upgrade_version: update_loop catches it (line 272),
\* main does not
Raise ==
    /\ cpc' = (IF up.caller = "main" THEN "crashed" ELSE "sleep")
    /\ last' = [last EXCEPT !.outcome = "raised"]

Did(e) == trace' = Append(trace, e)

\* lines 152-165
up_select ==
    /\ cpc = "up_select"
    /\ LET next == NextVersion(get_version, get_versions(servers))
       IN  IF next = NotAVersion
              THEN Return("noupgrade") /\ UNCHANGED up
              ELSE /\ up' = [up EXCEPT !.version = next]
                   /\ cpc' = "up_stop_proxy"
                   /\ UNCHANGED last
    /\ UNCHANGED <<procs, rec, current, old, env, trace>>

\* (mutant) the server is not stopped
up_stop_proxy_only ==
    /\ cpc = "up_stop_proxy"
    /\ Idle
    /\ IF up.proxy THEN stop("proxy") /\ Did("proxy.stop")
                   ELSE UNCHANGED <<procs, trace>>
    /\ cpc' = "up_rename"
    /\ UNCHANGED <<rec, current, old, env, up, last>>

\* lines 166-167: if proxy: proxy.stop()
up_stop_proxy ==
    /\ cpc = "up_stop_proxy"
    /\ Idle
    /\ IF up.proxy THEN stop("proxy") /\ Did("proxy.stop")
                   ELSE UNCHANGED <<procs, trace>>
    /\ cpc' = "up_stop_server"
    /\ UNCHANGED <<rec, current, old, env, up, last>>

\* lines 168-169: if server: server.stop()
up_stop_server ==
    /\ cpc = "up_stop_server"
    /\ Idle
    /\ IF up.server THEN stop("server") /\ Did("server.stop")
                    ELSE UNCHANGED <<procs, trace>>
    /\ cpc' = "up_rename"
    /\ UNCHANGED <<rec, current, old, env, up, last>>

\* a directory with something in it
NonEmpty(root) == root.exists /\ root # EmptyRoot

\* what os.rename("current", "old") can do: FileNotFoundError without a
\* "current", an OSError (ENOTEMPTY) onto an "old" that is not empty, else it
\* succeeds unless permission is denied
RenameOutcomes ==
    IF ~current.exists THEN {"notfound"}
    ELSE IF NonEmpty(old) THEN {"oserror", "perm"}
    ELSE {"ok", "perm"}

\* (mutant) the data root is made anew before the migration gives up
up_makedirs_first ==
    /\ cpc = "up_rename"
    /\ Idle
    /\ Did("rename")
    /\ \E out \in RenameOutcomes :
          CASE out = "ok" ->
                  /\ old' = current
                  /\ current' = Absent
                  /\ cpc' = "up_makedirs"
                  /\ last' = [last EXCEPT !.rename = out]
            [] out = "notfound" ->
                  /\ cpc' = "up_makedirs"
                  /\ last' = [last EXCEPT !.rename = out]
                  /\ UNCHANGED <<current, old>>
            [] out = "perm" ->
                  /\ Return("abort_perm")
                  /\ current' = EmptyRoot
                  /\ UNCHANGED old
            [] out = "oserror" ->
                  /\ Return("abort_os")
                  /\ current' = EmptyRoot
                  /\ UNCHANGED old
    /\ UNCHANGED <<procs, rec, env, up>>

\* lines 170-179
up_rename ==
    /\ cpc = "up_rename"
    /\ Idle
    /\ Did("rename")
    /\ \E out \in RenameOutcomes :
          CASE out = "ok" ->
                  /\ old' = current
                  /\ current' = Absent
                  /\ cpc' = "up_makedirs"
                  /\ last' = [last EXCEPT !.rename = out]
            [] out = "notfound" ->
                  /\ cpc' = "up_makedirs"
                  /\ last' = [last EXCEPT !.rename = out]
                  /\ UNCHANGED <<current, old>>
            [] out = "perm" ->
                  /\ Return("abort_perm")
                  /\ UNCHANGED <<current, old>>
            [] out = "oserror" ->
                  /\ Return("abort_os")
                  /\ UNCHANGED <<current, old>>
    /\ UNCHANGED <<procs, rec, env, up>>

\* (mutant) the record is written as soon as the data root is made
up_makedirs_commits ==
    /\ cpc = "up_makedirs"
    /\ LET made == IF current.exists THEN current ELSE EmptyRoot
       IN  current' = IF old.exists /\ old.world /\ ~made.world
                         THEN [made EXCEPT !.world = TRUE] ELSE made
    /\ rec' = [ver |-> version_to_string(up.version), ts |-> clock.now]
    /\ cpc' = "up_copy"
    /\ UNCHANGED <<procs, old, env, up, trace, last>>

\* lines 182-186: os.makedirs("current", exist_ok=True); copytree of
\* old/world, which fails (and is ignored) without one
up_makedirs ==
    /\ cpc = "up_makedirs"
    /\ LET made == IF current.exists THEN current ELSE EmptyRoot
       IN  current' = IF old.exists /\ old.world /\ ~made.world
                         THEN [made EXCEPT !.world = TRUE] ELSE made
    /\ cpc' = "up_copy"
    /\ UNCHANGED <<procs, rec, old, env, up, trace, last>>

\* lines 187-191: the jar of the directory named version_to_string(version),
\* a FileNotFoundError where servers/ has no such directory; then eula.txt
up_copy ==
    /\ cpc = "up_copy"
    /\ LET name == version_to_string(up.version)
       IN  IF \E k \in DOMAIN servers : servers[k] = name
              THEN /\ current' = [current EXCEPT !.jar = name, !.eula = TRUE]
                   /\ cpc' = "up_run"
                   /\ UNCHANGED last
              ELSE Raise /\ UNCHANGED current
    /\ UNCHANGED <<procs, rec, old, env, up, trace>>

\* lines 195-198: the server runs for up to 10 seconds and writes its default
\* files, or not (java fails early), or subprocess.run raises (no java)
up_run ==
    /\ cpc = "up_run"
    /\ \E out \in {"generated", "nothing", "raised"} :
          CASE out = "generated" ->
                  /\ current' = [current EXCEPT !.conf = "default", !.world = TRUE]
                  /\ cpc' = "up_props"
                  /\ UNCHANGED last
            [] out = "nothing" ->
                  /\ cpc' = "up_props"
                  /\ UNCHANGED <<current, last>>
            [] out = "raised" ->
                  /\ Raise
                  /\ UNCHANGED current
    /\ UNCHANGED <<procs, rec, old, env, up, trace>>

\* line 200: apply_properties reads current/server.properties
up_props ==
    /\ cpc = "up_props"
    /\ IF current.conf = "none"
          THEN Raise /\ UNCHANGED current
          ELSE /\ current' = [current EXCEPT !.conf = "applied"]
               /\ cpc' = "up_commit"
               /\ UNCHANGED last
    /\ UNCHANGED <<procs, rec, old, env, up, trace>>

\* (mutant) the record keeps its old timestamp
up_commit_keeps_time ==
    /\ cpc = "up_commit"
    /\ rec' = [ver |-> version_to_string(up.version), ts |-> rec.ts]
    /\ Did("commit")
    /\ cpc' = "up_start_server"
    /\ last' = [last EXCEPT !.outcome = "committed"]
    /\ UNCHANGED <<procs, current, old, env, up>>

\* line 203: current.txt is rewritten
up_commit ==
    /\ cpc = "up_commit"
    /\ rec' = [ver |-> version_to_string(up.version), ts |-> clock.now]
    /\ Did("commit")
    /\ cpc' = "up_start_server"
    /\ last' = [last EXCEPT !.outcome = "committed"]
    /\ UNCHANGED <<procs, current, old, env, up>>

\* lines 205-206: if server: server.start()
up_start_server ==
    /\ cpc = "up_start_server"
    /\ IF up.server THEN start("server") /\ Did("server.start")
                    ELSE UNCHANGED <<procs, trace>>
    /\ cpc' = "up_set_version"
    /\ UNCHANGED <<rec, current, old, env, up, last>>

\* lines 207-208: if proxy: proxy.set_version(version_to_string(version))
up_set_version ==
    /\ cpc = "up_set_version"
    /\ IF up.proxy THEN set_version(version_to_string(up.version)) /\ Did("set_version")
                   ELSE UNCHANGED <<procs, trace>>
    /\ cpc' = "up_start_proxy"
    /\ UNCHANGED <<rec, current, old, env, up, last>>

\* lines 209-210: proxy.start(); discord_message changes nothing here
up_start_proxy ==
    /\ cpc = "up_start_proxy"
    /\ IF up.proxy THEN start("proxy") /\ Did("proxy.start")
                   ELSE UNCHANGED <<procs, trace>>
    /\ Return("committed")
    /\ UNCHANGED <<rec, current, old, env, up>>

upgrade_version ==
    \/ up_select
    \/ up_stop_proxy
    \/ up_stop_server
    \/ up_rename
    \/ up_makedirs
    \/ up_copy
    \/ up_run
    \/ up_props
    \/ up_commit
    \/ up_start_server
    \/ up_set_version
    \/ up_start_proxy

\* -------------------------------------------------- main and update_loop
\* lines 301-303: the first upgrade, without processes, of a new installation;
\* version_to_string(None) is a TypeError that ends main
main_begin ==
    /\ cpc = "main"
    /\ IF get_version = NotAVersion
          THEN cpc' = "crashed" /\ UNCHANGED <<up, trace, last>>
          ELSE IF version_to_string(get_version) = <<0, 0, 0>>
                  THEN Enter("main", FALSE, FALSE)
                  ELSE cpc' = "main_apply" /\ UNCHANGED <<up, trace, last>>
    /\ UNCHANGED <<procs, rec, current, old, env>>

\* line 304: apply_properties(get_version()); main ends with the exception
\* where current/server.properties does not exist
main_apply ==
    /\ cpc = "main_apply"
    /\ IF current.conf = "none"
          THEN cpc' = "crashed" /\ UNCHANGED current
          ELSE cpc' = "main_server" /\ current' = [current EXCEPT !.conf = "applied"]
    /\ UNCHANGED <<procs, rec, old, env, up, trace, last>>

\* line 305: start_server_in_background
main_server ==
    /\ cpc = "main_server"
    /\ start("server")
    /\ cpc' = "main_proxy"
    /\ UNCHANGED sched

\* lines 306-308: ProxyServer(settings, version_to_string(get_version()), ...)
main_proxy ==
    /\ cpc = "main_proxy"
    /\ IF settings.viaproxy_enable
          THEN set_version(version_to_string(get_version)) /\ cpc' = "main_proxy_start"
          ELSE cpc' = "tick" /\ UNCHANGED procs
    /\ UNCHANGED sched

\* start_proxy_in_background: proxy.start()
main_proxy_start ==
    /\ cpc = "main_proxy_start"
    /\ start("proxy")
    /\ cpc' = "tick"
    /\ UNCHANGED sched

main ==
    \/ main_begin
    \/ main_apply
    \/ main_server
    \/ main_proxy
    \/ main_proxy_start

\* lines 232-264, called at line 271 with the clock as it is at that moment
check_updates ==
    /\ cpc = "tick"
    /\ Idle
    /\ IF gate_passes
          THEN Enter("loop", TRUE, settings.viaproxy_enable)
          ELSE /\ cpc' = "sleep"
               /\ last' = [last EXCEPT !.invoked = FALSE]
               /\ UNCHANGED <<up, trace>>
    /\ UNCHANGED <<procs, rec, current, old, env>>

\* lines 274-277: time.sleep; d hours later (0: the next tick is in the same
\* hour) the loop calls check_updates again
sleep(d, limit) ==
    /\ cpc = "sleep"
    /\ clock.now + d <= limit
    /\ clock' = [clock EXCEPT !.now = @ + d]
    /\ cpc' = "tick"
    /\ UNCHANGED <<procs, rec, servers, current, old, settings, up, trace, last, visited>>

\* ------------------------------------------------------------ the scheduler
\* listings of servers/: the versions in order, orders of minor numbers that
\* are not the order of the versions, two names of one version, a name that
\* is no version, a name without patch number, nothing
Catalogs ==
    { << <<1, 16, 0>>, <<1, 17, 0>>, <<1, 18, 0>> >>,
      << <<1, 17, 0>>, <<2, 0, 0>> >>,
      << <<1, 16>>, <<7>>, <<1, 16, 0>> >>,
      << <<1, 17>> >>,
      << >> }

\* a new installation, and one that runs 1.16.0 since a week before the start
Installations ==
    { [rec |-> NewRecord, current |-> Absent],
      [rec |-> [ver |-> <<1, 16, 0>>, ts |-> -168], current |-> UsedRoot(<<1, 16, 0>>)] }

MigInit ==
    /\ Constructed
    /\ version = <<>>
    /\ cpc = "main"
    /\ servers \in Catalogs
    /\ \E inst \in Installations : rec = inst.rec /\ current = inst.current
    /\ old = Absent
    /\ settings \in {[DefaultSettings EXCEPT !.update_frequency_days = f,
                                             !.viaproxy_enable = v] :
                        f \in {0, 7}, v \in BOOLEAN}
    /\ clock = [now |-> 0, tz |-> 0]
    /\ up = NoUp
    /\ trace = <<>>
    /\ last = NoLast
    /\ visited = <<>>

\* a stop() whose join ends within its timeout
StopStepTimely(i) ==
    \/ stop_poll(i)
    \/ stop_wait(i)
    \/ stop_wait_timeout(i)
    \/ stop_kill(i)
    \/ stop_join(i)
    \/ stop_reset(i)
    \/ stop_clear(i)

\* The program, with ticks in the same hour and a week apart, and worker
\* threads that end within the timeout of the join that waits for them.
MigNext ==
    \/ main
    \/ check_updates
    \/ \E d \in {0, 168} : sleep(d, MaxNow)
    \/ upgrade_version
    \/ \E i \in Inst : StopStepTimely(i)
    \/ \E i \in Inst : \E r \in Threads(i, TRUE) : WorkerStep(i, r, TRUE)
    \/ \E i \in Inst : \E c \in ChildSlots : child_exit(i, c)

MigSpec == MigInit /\ [][MigNext]_vars

\* ------------------------------------------------- the walk of the catalog
\* directories of servers/ at a time
MaxDirs == 3

\* selections in a row
MaxVisits == 4

\* names of directories: versions with and without patch number, no version
DirNames == {<<1, 16>>, <<1, 16, 0>>, <<1, 17, 0>>, <<2, 0, 0>>, <<7>>}

\* os.listdir gives the names in any order
Listings ==
    {l \in UNION {[1..n -> DirNames] : n \in 0..MaxDirs} :
        \A j, k \in DOMAIN l : j # k => l[j] # l[k]}

CatInit ==
    /\ Constructed
    /\ version = <<>>
    /\ cpc = "catalog"
    /\ servers \in Listings
    /\ rec = NewRecord
    /\ current = Absent
    /\ old = Absent
    /\ settings = DefaultSettings
    /\ clock = [now |-> 0, tz |-> 0]
    /\ up = NoUp
    /\ trace = <<>>
    /\ last = NoLast
    /\ visited = <<>>

\* lines 152-164 on their own: the version selected becomes the current one
select_next ==
    /\ cpc = "catalog"
    /\ last.outcome # "noupgrade"
    /\ Len(visited) < MaxVisits
    /\ LET next == NextVersion(get_version, get_versions(servers))
       IN  IF next = NotAVersion
              THEN /\ last' = [last EXCEPT !.outcome = "noupgrade"]
                   /\ UNCHANGED <<rec, visited>>
              ELSE /\ rec' = [rec EXCEPT !.ver = version_to_string(next)]
                   /\ visited' = Append(visited, next)
                   /\ UNCHANGED last
    /\ UNCHANGED <<procs, cpc, servers, current, old, settings, clock, up, trace>>

CatNext == select_next

CatSpec == CatInit /\ [][CatNext]_vars

\* ------------------------------------------------------- the gate alone
\* update_loop with both processes started, an installation at the last
\* version of the catalog, and the clock hour by hour
GateInit ==
    /\ stop_event = [i \in Inst |-> FALSE]
    /\ proc = [i \in Inst |-> None]
    /\ thread = [i \in Inst |-> NewWorker]
    /\ orphans = [i \in Inst |-> EmptyBag]
    /\ version = <<1, 16, 0>>
    /\ children = [i \in Inst |-> [c \in ChildSlots |-> FreeChild]]
    /\ ctl = NoCall
    /\ hist = [i \in Inst |-> "started"]
    /\ cpc = "tick"
    /\ servers = << <<1, 16, 0>> >>
    /\ rec \in {[ver |-> <<1, 16, 0>>, ts |-> t] : t \in {0, 100}}
    /\ current = UsedRoot(<<1, 16, 0>>)
    /\ old = Absent
    /\ settings \in {[update_frequency_days |-> f, update_weekday |-> w,
                      update_time_utc |-> h, viaproxy_enable |-> TRUE] :
                        f \in {0, 1, 7},
                        w \in {"monday", "wednesday", "sunday", "Sunday"},
                        h \in {0, 23}}
    /\ clock \in {[now |-> 0, tz |-> z] : z \in {-1, 0, 1}}
    /\ up = NoUp
    /\ trace = <<>>
    /\ last = NoLast
    /\ visited = <<>>

GateNext ==
    \/ check_updates
    \/ \E d \in {0, 1, 23} : sleep(d, MaxNow)
    \/ up_select

GateSpec == GateInit /\ [][GateNext]_vars

\* ------------------------------------------------------------------ claims
\* C5: in an upgrade_version call with a server and a proxy, proxy.stop()
\* comes before server.stop(), both before the rename of "current", which is
\* tried only once both stops have returned; the commit of current.txt comes
\* before server.start(), server.start() before proxy.start(), and
\* proxy.set_version() before proxy.start().
C5_StopRenameCommitStartOrder ==
    (up.server /\ up.proxy) =>
        LET at(e) == FirstSlot(trace, e)
            before(a, b) == at(b) # 0 => (at(a) # 0 /\ at(a) < at(b))
        IN  /\ before("proxy.stop", "server.stop")
            /\ before("server.stop", "rename")
            /\ before("commit", "server.start")
            /\ before("server.start", "proxy.start")
            /\ before("set_version", "proxy.start")
            /\ (at("rename") # 0 /\ at("server.start") = 0)
                  => \A i \in Inst : hist[i] \in Stopped /\ ~stop_event[i]

\* C5 witness: a call from update_loop has done all seven steps.
C5_Witness ==
    /\ up.caller = "loop"
    /\ trace = <<"proxy.stop", "server.stop", "rename", "commit",
                 "server.start", "set_version", "proxy.start">>

\* C6: while the version of current.txt is the last entry of get_versions(),
\* upgrade_version is at none of its steps behind the selection: it stops no
\* process, renames and changes no directory, writes nothing.
C6_LastEntryMeansNoUpgrade ==
    LET versions == get_versions(servers)
    IN  get_version = versions[Len(versions)]
           => cpc \notin {"up_stop_proxy", "up_stop_server", "up_rename",
                          "up_makedirs", "up_copy", "up_run", "up_props", "up_commit"}

\* C7: after an upgrade_version that gave up at the rename (PermissionError,
\* or an OSError other than FileNotFoundError), current.txt, "current" and
\* "old" are as they were when it was called and the rename was its last step;
\* and a rename that finds no "current" is followed by the makedirs step
\* with nothing changed.
C7_RenameFailureAborts ==
    /\ [](last.outcome \in {"abort_perm", "abort_os"}
             => /\ rec = up.rec0
                /\ current = up.cur0
                /\ old = up.old0
                /\ trace[Len(trace)] = "rename"
                /\ cpc \notin {"up_makedirs", "up_copy", "up_run", "up_props", "up_commit"})
    /\ [][(cpc = "up_rename" /\ ~current.exists /\ cpc' # cpc)
             => (cpc' = "up_makedirs" /\ UNCHANGED <<rec, current, old>>)]_vars

\* C7 witness: a call from update_loop gave up for a PermissionError, with
\* both processes stopped and the data root in place.
C7_Witness ==
    /\ last.outcome = "abort_perm"
    /\ cpc = "sleep"
    /\ current.exists
    /\ current = up.cur0
    /\ trace = <<"proxy.stop", "server.stop", "rename">>

\* C8: after an upgrade_version that committed, called with current.txt at a
\* version N of the catalog that has greater versions in the catalog,
\* current.txt holds M, the least of those in the order of (major, minor,
\* patch), the server.jar of "current" is that of M, and "old" is the
\* "current" of before the call, if there was one.
C8_CommittedMigration ==
    LET less(a, b) ==
            \/ a.major < b.major
            \/ a.major = b.major /\ a.minor < b.minor
            \/ a.major = b.major /\ a.minor = b.minor /\ a.patch < b.patch
        catalog == {parse_version(servers[k]) : k \in DOMAIN servers}
                      \ {NotAVersion}
        N == parse_version(up.rec0.ver)
        later == {v \in catalog : less(N, v)}
    IN  (last.outcome = "committed" /\ N \in catalog \cup {Sentinel} /\ later # {})
           => LET M == CHOOSE v \in later : \A w \in later : w = v \/ less(v, w)
              IN  /\ get_version = M
                  /\ parse_version(current.jar) = M
                  /\ up.cur0.exists => old = up.cur0

\* C9: the versions selected one after the other from the sentinel are in
\* the strict order of (major, minor, patch), and when none is left they are
\* the versions of the directory names that parse.
C9_WalkInVersionOrder ==
    LET less(a, b) ==
            \/ a.major < b.major
            \/ a.major = b.major /\ a.minor < b.minor
            \/ a.major = b.major /\ a.minor = b.minor /\ a.patch < b.patch
        catalog == {parse_version(servers[k]) : k \in DOMAIN servers}
                      \ {NotAVersion}
    IN  cpc = "catalog"
           => /\ \A j, k \in DOMAIN visited : j < k => less(visited[j], visited[k])
              /\ last.outcome = "noupgrade"
                    => {visited[k] : k \in DOMAIN visited} = catalog

\* C10 (as stated): check_updates calls upgrade_version exactly when the
\* record is at least update_frequency_days old, the weekday of today is the
\* one update_weekday names, and the UTC hour is update_time_utc.
C10_GateAsStated ==
    LET due == /\ clock.now - rec.ts >= 24 * settings.update_frequency_days
               /\ WeekdayNames[today_weekday + 1] = settings.update_weekday
               /\ utc_hour = settings.update_time_utc
    IN  /\ (cpc = "up_select" /\ up.caller = "loop") => due
        /\ (cpc = "sleep" /\ ~last.invoked) => ~due

\* C10 (amended): the same, an update_weekday that is none of the seven
\* lowercase names counting as "monday".
C10_GateWithDefaultWeekday ==
    LET configured == IF \E k \in DOMAIN WeekdayNames :
                             WeekdayNames[k] = settings.update_weekday
                         THEN settings.update_weekday ELSE "monday"
        due == /\ clock.now - rec.ts >= 24 * settings.update_frequency_days
               /\ WeekdayNames[today_weekday + 1] = configured
               /\ utc_hour = settings.update_time_utc
    IN  /\ (cpc = "up_select" /\ up.caller = "loop") => due
        /\ (cpc = "sleep" /\ ~last.invoked) => ~due

\* C10 witness: with a frequency of 7 days, upgrade_version is called on a
\* record that is 7 days old, on a sunday (local) at 23 h UTC.
C10_Witness ==
    /\ cpc = "up_select"
    /\ up.caller = "loop"
    /\ settings.update_frequency_days = 7
    /\ settings.update_weekday = "sunday"
    /\ clock.now - rec.ts >= 168
    /\ utc_hour = 23

\* C11 (as stated): check_updates does not call upgrade_version at a tick
\* that falls into an hour in which it has called it already.
C11_OncePerHourAsStated ==
    [][(cpc = "tick" /\ cpc' = "up_select") => last.at # clock.now]_vars

\* C11 (amended): at a tick check_updates calls upgrade_version whenever the
\* gate passes, also when it has called it in that hour already; after a
\* call that committed, with update_frequency_days of 1 or more, no later
\* tick of that hour calls it again.
C11_OncePerHourAfterCommit ==
    [][(cpc = "tick" /\ cpc' # cpc)
          => /\ gate_passes => cpc' = "up_select"
             /\ (/\ last.at = clock.now
                 /\ last.outcome = "committed"
                 /\ settings.update_frequency_days >= 1) => cpc' = "sleep"]_vars

\* C11 witness: a tick in the hour of a call that committed has passed
\* without a call.
C11_Witness ==
    /\ cpc = "sleep"
    /\ ~last.invoked
    /\ last.outcome = "committed"
    /\ last.at = clock.now
    /\ up.caller = "loop"
    /\ settings.update_frequency_days = 7

\* ------------------------------------------- a record that does not parse
\* update_loop with both processes started by main, and a current.txt whose
\* first line has since become something VERSION_RE does or does not match
\* ("1", "1.16.0.1", "1.16.0"); its two lines are there, and the timestamp
\* parses.
RecInit ==
    /\ stop_event = [i \in Inst |-> FALSE]
    /\ proc = [i \in Inst |-> None]
    /\ thread = [i \in Inst |-> NewWorker]
    /\ orphans = [i \in Inst |-> EmptyBag]
    /\ version = <<1, 16, 0>>
    /\ children = [i \in Inst |-> [c \in ChildSlots |-> FreeChild]]
    /\ ctl = NoCall
    /\ hist = [i \in Inst |-> "started"]
    /\ cpc = "tick"
    /\ servers \in {<< <<1, 16, 0>>, <<1, 17, 0>> >>, << <<0, 0, 0>>, <<1, 16, 0>> >>}
    /\ rec \in {[ver |-> v, ts |-> -168] : v \in {<<1>>, <<1, 16, 0, 1>>, <<1, 16, 0>>}}
    /\ current = UsedRoot(<<1, 16, 0>>)
    /\ old = Absent
    /\ settings = DefaultSettings
    /\ clock = [now |-> 0, tz |-> 0]
    /\ up = NoUp
    /\ trace = <<>>
    /\ last = NoLast
    /\ visited = <<>>

RecNext ==
    \/ check_updates
    \/ \E d \in {0, 168} : sleep(d, MaxNow)
    \/ upgrade_version
    \/ \E i \in Inst : StopStepTimely(i)
    \/ \E i \in Inst : \E r \in Threads(i, TRUE) : WorkerStep(i, r, TRUE)
    \/ \E i \in Inst : \E c \in ChildSlots : child_exit(i, c)

RecSpec == RecInit /\ [][RecNext]_vars

\* C12: while the first line of current.txt is no version, upgrade_version
\* is at none of its steps behind the selection: it has no current version
\* to go on with, stops no process and changes nothing on disk.
C12_CorruptRecordStopsNothing ==
    parse_version(rec.ver) = NotAVersion
       => /\ cpc \notin {"up_stop_proxy", "up_stop_server", "up_rename", "up_makedirs",
                         "up_copy", "up_run", "up_props", "up_commit"}
          /\ \A i \in Inst : hist[i] \notin Stopped
          /\ current = UsedRoot(<<1, 16, 0>>)

\* C13: a child of the proxy that is launched has the version of that moment
\* (set by the last set_version, its ".0" cut off) as its target version, and
\* set_version changes nothing about the children there are.
C13_LaunchUsesSetVersion ==
    [][/\ \A c \in ChildSlots :
            (~Running("proxy", c) /\ children'["proxy"][c].st = "running")
               => children'["proxy"][c].ver = StripVersion(version)
       /\ version' # version => children' = children]_vars

\* C14: current.txt changes only in the commit step of upgrade_version,
\* reached with the rename tried, the jar of the target version in
\* "current" and the properties applied, and it then holds that version and
\* the time of the clock; after an upgrade_version that reported no later
\* version, gave up at the rename or raised, it is as it was at the call.
C14_RecordChangedOnlyByCommit ==
    /\ [](last.outcome \in {"noupgrade", "abort_perm", "abort_os", "raised"}
             => rec = up.rec0)
    /\ [][rec' # rec
             => /\ cpc = "up_commit"
                /\ FirstSlot(trace, "rename") # 0
                /\ current.jar = version_to_string(up.version)
                /\ current.conf = "applied"
                /\ rec' = [ver |-> version_to_string(up.version), ts |-> clock.now]]_vars

\* C14 witness: a call by update_loop has just committed a version other
\* than the one of before, with both processes stopped.
C14_Witness ==
    /\ cpc = "up_start_server"
    /\ up.caller = "loop"
    /\ last.outcome = "committed"
    /\ rec.ver # up.rec0.ver
    /\ \A i \in Inst : hist[i] \in Stopped

\* -------------------------------------------- update_loop, for ever
\* update_loop(server, None) is entered: viaproxy-enable is off, so main has
\* made and started the server only; current.txt holds a version or a line
\* that is none, servers/ a next version or a directory named 0.0.0
LoopInit ==
    /\ stop_event = [i \in Inst |-> FALSE]
    /\ proc = [i \in Inst |-> None]
    /\ thread = [i \in Inst |-> IF i = "server" THEN NewWorker ELSE NoThread]
    /\ orphans = [i \in Inst |-> EmptyBag]
    /\ version = <<1, 16, 0>>
    /\ children = [i \in Inst |-> [c \in ChildSlots |-> FreeChild]]
    /\ ctl = NoCall
    /\ hist = [i \in Inst |-> IF i = "server" THEN "started" ELSE "new"]
    /\ cpc = "tick"
    /\ servers \in {<< <<1, 16, 0>>, <<1, 17, 0>> >>, << <<0, 0, 0>>, <<1, 16, 0>> >>}
    /\ rec \in {[ver |-> v, ts |-> -168] : v \in {<<1>>, <<1, 16, 0>>}}
    /\ current = UsedRoot(<<1, 16, 0>>)
    /\ old = Absent
    /\ settings = [DefaultSettings EXCEPT !.viaproxy_enable = FALSE]
    /\ clock = [now |-> 0, tz |-> 0]
    /\ up = NoUp
    /\ trace = <<>>
    /\ last = NoLast
    /\ visited = <<>>

\* the steps of upgrade_version behind the selection
UpgradeSteps ==
    \/ up_stop_proxy
    \/ up_stop_server
    \/ up_rename
    \/ up_makedirs
    \/ up_copy
    \/ up_run
    \/ up_props
    \/ up_commit
    \/ up_start_server
    \/ up_set_version
    \/ up_start_proxy

\* The program from the first tick on; stop() gives up a join that times
\* out, and the threads it gave up go on.
LoopNext ==
    \/ check_updates
    \/ \E d \in {0, 168} : sleep(d, MaxNow)
    \/ upgrade_version
    \/ \E i \in Inst : StopStep(i)
    \/ \E i \in Inst : \E h \in BOOLEAN : \E r \in Threads(i, h) : WorkerStep(i, r, h)
    \/ \E i \in Inst : \E c \in ChildSlots : child_exit(i, c)

\* upgrade_version gets past line 165: the step up_select takes, told by the
\* positions it leads from and to
select_done == cpc = "up_select" /\ cpc' \in {"up_stop_proxy", "sleep"}

\* The thread of update_loop keeps being scheduled, wherever it is. Nothing
\* is assumed of the workers and the children: stop() waits for them with a
\* timeout, and kills the child that does not exit.
LoopFair ==
    /\ WF_vars(check_updates)
    /\ WF_vars(\E d \in {0, 168} : sleep(d, MaxNow))
    /\ WF_cpc(select_done)
    /\ WF_vars(UpgradeSteps)
    /\ WF_vars(\E i \in Inst : StopStep(i))

LoopSpec == LoopInit /\ [][LoopNext]_vars /\ LoopFair

\* C15: after an exception in check_updates or in the upgrade_version it
\* called, and from any other point of an iteration of update_loop, the next
\* tick comes, and every tick is left again: ticks without end.
C15_LoopSurvivesExceptions ==
    /\ (cpc # "tick") ~> (cpc = "tick")
    /\ (cpc = "tick") ~> (cpc # "tick")

\* C15 witness: update_loop is at a tick after an upgrade_version that
\* raised and left the server stopped.
C15_Witness ==
    /\ cpc = "tick"
    /\ last.outcome = "raised"
    /\ up.caller = "loop"
    /\ hist["server"] \in Stopped

\* ------------------------------------------------- launches of one worker
\* the first start() of an instance
first_start(i) == hist[i] = "new" /\ call_start(i)

\* An instance that is started once and then stopped any number of times:
\* it has one worker thread in all, which launches every child it has.
OneWorkerNext ==
    \/ \E i \in Inst : first_start(i)
    \/ \E i \in Inst : call_stop(i)
    \/ \E i \in Inst : StopStep(i)
    \/ \E i \in Inst : \E h \in BOOLEAN : \E r \in Threads(i, h) :
          WorkerStep(i, r, h)
    \/ \E i \in Inst : \E c \in ChildSlots : child_exit(i, c)

OneWorkerSpec == Init /\ [][OneWorkerNext]_vars

\* C16: the worker launches a child (a Popen object begins to run) only
\* when no child it launched before is still running; every child of the
\* instance is one it launched.
C16_LaunchesOneAfterTheOther ==
    [][\A i \in Inst :
          (\E c \in ChildSlots : ~Running(i, c) /\ Running(i, c)')
             => LiveChildren(i) = {}]_vars

C18_StartedAgainOnEveryOutcome ==
    (cpc = "sleep" /\ last.invoked /\ up.caller = "loop") =>
        LET at(e) == FirstSlot(trace, e)
        IN  /\ at("server.stop") # 0 => at("server.start") > at("server.stop")
            /\ at("proxy.stop") # 0 => at("proxy.start") > at("proxy.stop")

\* C19: with the versions 1.16.0, 1.17.0, 1.18.0 in servers/ and the
\* migrations to 1.16.0 and to 1.17.0 done ("current" is the data root of
\* 1.17.0, "old" the one of 1.16.0), the rename of "current" to "old" that
\* the migration to 1.18.0 tries goes through unless permission is denied,
\* and the migration goes on to set up the new data root.
C19_RenameOverBackupSucceeds ==
    [][(/\ servers = << <<1, 16, 0>>, <<1, 17, 0>>, <<1, 18, 0>> >>
        /\ rec.ver = <<1, 17, 0>>
        /\ current = UsedRoot(<<1, 17, 0>>)
        /\ old = UsedRoot(<<1, 16, 0>>)
        /\ cpc = "up_rename"
        /\ cpc' # "up_rename"
        /\ last'.outcome # "abort_perm")
          => cpc' = "up_makedirs"]_vars

\* C20: the version an upgrade_version call goes on with behind its
\* selection is not the sentinel 0.0.0, and it is the version of a directory
\* of servers/.
C20_TargetIsACatalogEntry ==
    cpc \in {"up_stop_proxy", "up_stop_server", "up_rename", "up_makedirs",
             "up_copy", "up_run", "up_props", "up_commit"}
       => /\ up.version # Sentinel
          /\ \E k \in DOMAIN servers : parse_version(servers[k]) = up.version

====
